---- MODULE Spec2Model ----
(***************************************************************************)
(* The log-structured key-value engine of src/src/engine/kvs.rs: KvStore   *)
(* clones running set / get / remove in parallel over one KvStoreWriter    *)
(* (behind a Mutex), one index (behind an RwLock) and one log directory,   *)
(* with rotation (flush), compaction and close / reopen; the server's      *)
(* handle_stream (src/src/server.rs) answering one request per connection  *)
(* over that engine; and the ThreadPool of src/src/thread_pool/mod.rs.     *)
(*                                                                         *)
(* A segment file is the sequence of the records written to it; a byte     *)
(* offset is the sum of the serialised lengths of the records before it.   *)
(***************************************************************************)
EXTENDS Integers, Sequences, FiniteSets, TLC

\* ------------------------------------------------------------------ bounds

\* Writes start only while the active version is at most MaxVer.
MaxVer == 3

\* The store is opened at most MaxOpens times (the first open included).
MaxOpens == 2

\* The two thresholds of kvs.rs, scaled down from 40 KiB and 1 KiB so that a
\* segment is full after two records (two Rm lines are 38 bytes) and a
\* compaction is due at the second rotation; the code compares its byte
\* counters against them in the same way.
THRESHOLD == 76

ACTIVE_THRESHOLD == 38

\* The clones of the store, one per thread.  "t1" holds the handle returned
\* by open, "t2" a clone of it.
Threads == {"t1", "t2"}

Keys == {"a", "b"}

\* Each clone writes its own value, so a value read names the clone that
\* wrote it.
ValueOf(t) == IF t = "t1" THEN "1" ELSE "2"

Values == {ValueOf(t) : t \in Threads}

NoThread == "none"

\* ------------------------------------------------------------------ records

OpSet(k, v) == [op |-> "Set", key |-> k, value |-> v]

OpRm(k) == [op |-> "Rm", key |-> k, value |-> ""]

\* serde_json::to_string(&op) followed by '\n':
\*   {"Set":{"key":"<k>","value":"<v>"}}   and   {"Rm":{"key":"<k>"}}
SerialLen(o) ==
  IF o.op = "Set" THEN 29 + Len(o.key) + Len(o.value) + 1
  ELSE 17 + Len(o.key) + 1

RECURSIVE FileLen(_)
FileLen(f) == IF f = <<>> THEN 0 ELSE SerialLen(Head(f)) + FileLen(Tail(f))

\* Byte offset at which the i-th line of f starts.
StartPos(f, i) == FileLen(SubSeq(f, 1, i - 1))

\* seek(off) then read_line then serde_json::from_str: the record whose line
\* starts at off, or a decode failure when off is not the start of a line.
NoRecord == [op |-> "Garbage", key |-> "", value |-> ""]

RecordAt(f, off) ==
  IF \E i \in 1..Len(f) : StartPos(f, i) = off
  THEN f[CHOOSE i \in 1..Len(f) : StartPos(f, i) = off]
  ELSE NoRecord

\* ------------------------------------------------------------------ index

\* InMemIndex; the index is BTreeMap<String, InMemIndex>, modelled as a total
\* function in which NoEntry stands for "no entry for this key" (segment
\* versions start at 1).
InMemIndex(v, pos) == [version |-> v, start_pos |-> pos]

NoEntry == [version |-> 0, start_pos |-> 0]

EmptyIndex == [k \in Keys |-> NoEntry]

\* A plausible slip: the lookup answers "present" for every key.
contains_key_always(ix, k) == TRUE

\* BTreeMap::contains_key
contains_key(ix, k) == ix[k] # NoEntry

\* A plausible slip: or_insert alone, which keeps the entry of a key that is
\* already there.
index_upsert_keep(ix, k, e) == IF contains_key(ix, k) THEN ix ELSE [ix EXCEPT ![k] = e]

\* mp.entry(key).and_modify(..).or_insert(..)
index_upsert(ix, k, e) == [ix EXCEPT ![k] = e]

\* A plausible slip: the removal from the index is left out.
index_remove_skipped(ix, k) == ix

\* writer.remove(&key)
index_remove(ix, k) == [ix EXCEPT ![k] = NoEntry]

\* A HashMap<String, String> in the same style.
Absent == "<absent>"

EmptyDict == [k \in Keys |-> Absent]

\* ------------------------------------------------------------------ files

\* OpenOptions::new().create(true).append(true).open(<v>.log)
CreateFile(dir, v) ==
  [w \in (DOMAIN dir) \cup {v} |-> IF w \in DOMAIN dir THEN dir[w] ELSE <<>>]

\* fs::remove_file(<v>.log)
RemoveFile(dir, v) == [w \in (DOMAIN dir) \ {v} |-> dir[w]]

\* write_all + flush on the append handle of <v>.log
AppendTo(dir, v, o) == [dir EXCEPT ![v] = Append(@, o)]

MaxOf(S) == CHOOSE x \in S : \A y \in S : y <= x

MinOf(S) == CHOOSE x \in S : \A y \in S : x <= y

\* version_list.sort_unstable()
RECURSIVE SortedSeq(_)
SortedSeq(S) ==
  IF S = {} THEN <<>> ELSE <<MinOf(S)>> \o SortedSeq(S \ {MinOf(S)})

\* The sequence s backwards.
RECURSIVE Reverse(_)
Reverse(s) == IF s = <<>> THEN <<>> ELSE Reverse(Tail(s)) \o <<Head(s)>>

\* The sum of the sizes of the files S of dir.
RECURSIVE TotalLen(_, _)
TotalLen(dir, S) ==
  IF S = {} THEN 0
  ELSE LET v == MinOf(S) IN FileLen(dir[v]) + TotalLen(dir, S \ {v})

\* A plausible slip: sort_unstable() is left out and read_dir yields the
\* files newest first.
traverse_dir_unsorted(dir) ==
  [version_list |-> Reverse(SortedSeq(DOMAIN dir)),
   total_len |-> TotalLen(dir, DOMAIN dir)]

\* traverse_dir: the versions found, ascending, and the sum of the file sizes.
traverse_dir(dir) ==
  [version_list |-> SortedSeq(DOMAIN dir), total_len |-> TotalLen(dir, DOMAIN dir)]

\* ------------------------------------------------------------------ replay

\* The replay loop of KvStoreWriter::new over one file, from line i on.  A
\* Set upserts (version, offset of the line); a Rm removes the key and
\* .expect()s that it was there, which panics when it was not.
RECURSIVE ReplayLines(_, _, _, _)
ReplayLines(st, v, f, i) ==
  IF i > Len(f) \/ ~st.ok THEN st
  ELSE LET o == f[i] IN
    IF o.op = "Set"
    THEN ReplayLines([st EXCEPT !.index[o.key] = InMemIndex(v, StartPos(f, i))],
                     v, f, i + 1)
    ELSE IF contains_key(st.index, o.key)
         THEN ReplayLines([st EXCEPT !.index[o.key] = NoEntry], v, f, i + 1)
         ELSE [st EXCEPT !.ok = FALSE]

RECURSIVE ReplayFiles(_, _, _)
ReplayFiles(st, dir, order) ==
  IF order = <<>> THEN st
  ELSE ReplayFiles(ReplayLines(st, Head(order), dir[Head(order)], 1),
                   dir, Tail(order))

\* A plausible slip: the directory listing is replayed without the sort,
\* here in descending version.
ReplayUnsorted(dir) ==
  ReplayFiles([ok |-> TRUE, index |-> EmptyIndex], dir,
              Reverse(traverse_dir(dir).version_list))

\* KvStoreWriter::new, lines 219-264: replay every file, ascending.
Replay(dir) ==
  ReplayFiles([ok |-> TRUE, index |-> EmptyIndex], dir,
              traverse_dir(dir).version_list)

\* The loop body of compact() for one file: dict.insert on Set and
\* dict.remove(&key).unwrap() on Rm, which panics on a key not in dict.
RECURSIVE CompactLines(_, _, _)
CompactLines(st, f, i) ==
  IF i > Len(f) \/ ~st.ok THEN st
  ELSE LET o == f[i] IN
    IF o.op = "Set"
    THEN CompactLines([st EXCEPT !.dict[o.key] = o.value], f, i + 1)
    ELSE IF st.dict[o.key] # Absent
         THEN CompactLines([st EXCEPT !.dict[o.key] = Absent], f, i + 1)
         ELSE [st EXCEPT !.ok = FALSE]

\* ------------------------------------------------------------------ state

VARIABLES
  log,           \* the log/ directory: version |-> the records of <version>.log
  index,         \* entry_to_index
  current_ver,   \* KvStoreWriter.current_ver
  current_len,   \* KvStoreWriter.current_len
  old_log_len,   \* KvStoreWriter.old_log_len
  min_version,   \* the AtomicU32 shared by writer and readers
  kv_writer,     \* owner of the Mutex<KvStoreWriter>, or NoThread
  readers,       \* threads holding entry_to_index.read()
  write_locked,  \* thread holding entry_to_index.write() across steps
  ver_to_file,   \* per clone: versions with a cached read handle
  pc,            \* per thread: where it is in its call
  arg,           \* per thread: the call and its key
  local,         \* per thread: the InMemIndex copied by get / pos of set
  res,           \* per thread: the result of the call that has returned
  order,         \* compact(): the versions still to read
  dict,          \* compact(): key |-> last value seen
  status,        \* "open", or "panicked" after a panic in open or compact
  opens,         \* how many times the directory has been opened
  cur,           \* history: key |-> value of the last write, in index order
  seen,          \* history: per thread, the values its key had during the call
  overlap,       \* history: per thread, a write of its key overlapped its get
  conn,          \* server: per worker thread, the connection it is handling
  worker,        \* ThreadPool.worker: slot |-> the Worker it holds
  queue,         \* the tasks sent on the channel and not yet received
  dead,          \* poll(): the Vec of the ids collected as ended
  polling,       \* poll(): 0 when it is not running, else the position in
                 \* dead of the next id to replace
  scanned,       \* history: the workers as the scan of poll() found them
  pool,          \* "live", or where Drop for ThreadPool is: "dropping",
                 \* "dropped", or "panicked" in it
  joined,        \* drop(): the number of workers joined so far
  rx_lock,       \* the slot whose thread holds the receiver's mutex
  spawned,       \* history: the number of tasks sent on the channel
  received,      \* history: the number of tasks recv() has returned
  ran,           \* history: the number of calls f() that have ended
  meta,          \* the content of the file meta in the working directory
  start,         \* kvs-server: where the run of the process is
  started        \* history: the engines requested at the starts so far

writerVars == <<current_ver, current_len, old_log_len, min_version>>

lockVars == <<kv_writer, readers, write_locked>>

threadVars == <<pc, arg, local, res>>

compactVars == <<order, dict>>

historyVars == <<cur, seen, overlap>>

engineVars == <<log, index, writerVars, lockVars, ver_to_file, threadVars,
                compactVars, status, opens, historyVars>>

startVars == <<meta, start, started>>

serverVars == <<conn, startVars>>

dropVars == <<pool, joined>>

queueVars == <<rx_lock, spawned, received, ran>>

poolVars == <<worker, queue, dead, polling, scanned, dropVars, queueVars>>

vars == <<engineVars, serverVars, poolVars>>

\* The variants of KvsError that the engine and the server produce.
IoError == "IoError"

SerdeError == "SerdeError"

KeyNotFound == "KeyNotFound"

UnexpectedType == "UnexpectedType"

KvsErrors == {IoError, SerdeError, KeyNotFound, UnexpectedType}

NoArg == [op |-> "none", key |-> ""]

NoRes == [kind |-> "none", value |-> ""]

Ok == [kind |-> "Ok", value |-> ""]

OkNone == [kind |-> "None", value |-> ""]

OkSome(v) == [kind |-> "Some", value |-> v]

Err(e) == [kind |-> "Err", value |-> e]

WritePcs == {"set_index", "rm_index", "rm_append", "compact", "compact_scan"}

\* A write of key k is in flight in thread u.
Writing(u, k) == pc[u] \in WritePcs /\ arg[u].key = k

\* ------------------------------------------------------------------ wire

\* A plausible slip: the error is formatted with Debug, which gives the
\* variant's name.
to_string_debug(e) == e

\* Display for KvsError (#[fail(display = ..)]); the text of the wrapped
\* io::Error or serde_json::Error is written <cause>.
to_string(e) ==
  IF e = KeyNotFound THEN "Key not found"
  ELSE IF e = UnexpectedType THEN "unexpected command type"
  ELSE IF e = IoError THEN "io error <cause>"
  ELSE "serde json error <cause>"

\* The bytes on a stream, as a JSON reader sees them: the JSON string "s",
\* the one-entry object {"name":"s"} or {"name":null}, or text that is not
\* JSON.
JsonString(s) == [json |-> "string", name |-> "", content |-> s, null |-> FALSE]

JsonVariant(name, s) ==
  [json |-> "object", name |-> name, content |-> s, null |-> FALSE]

JsonVariantNull(name) ==
  [json |-> "object", name |-> name, content |-> "", null |-> TRUE]

PlainText(s) == [json |-> "none", name |-> "", content |-> s, null |-> FALSE]

\* GetResponse, SetResponse and RmResponse: Ok(Option<String>) | Err(String)
\* for the first, Ok | Err(String) for the other two.
ResponseOk(type) == [type |-> type, arm |-> "Ok", some |-> FALSE, content |-> ""]

ResponseOkSome(type, v) ==
  [type |-> type, arm |-> "Ok", some |-> TRUE, content |-> v]

ResponseErr(type, s) == [type |-> type, arm |-> "Err", some |-> FALSE, content |-> s]

DecodeError == [type |-> "", arm |-> "serde error", some |-> FALSE, content |-> ""]

\* The response type of a request.
ResponseType(op) ==
  IF op = "Get" THEN "GetResponse"
  ELSE IF op = "Set" THEN "SetResponse"
  ELSE "RmResponse"

ResponseTypes == {"GetResponse", "SetResponse", "RmResponse"}

\* A plausible slip: an engine error answered in the Ok arm.
Response_from_ok(type, r) ==
  IF r.kind = "Some" THEN ResponseOkSome(type, r.value) ELSE ResponseOk(type)

\* impl From<Result<..>> for GetResponse / SetResponse / RmResponse, applied
\* to the engine result r.
Response_from(type, r) ==
  IF r.kind = "Err" THEN ResponseErr(type, to_string(r.value))
  ELSE IF r.kind = "Some" THEN ResponseOkSome(type, r.value)
  ELSE ResponseOk(type)

\* serde_json::to_string(&response): a unit variant is the JSON string of
\* its name, a variant with content a one-entry object, None is null.
to_json(resp) ==
  IF resp.arm = "Err" THEN JsonVariant("Err", resp.content)
  ELSE IF resp.type = "GetResponse"
       THEN IF resp.some THEN JsonVariant("Ok", resp.content)
            ELSE JsonVariantNull("Ok")
       ELSE JsonString("Ok")

\* serde_json::from_str::<type>(w), as the client decodes a response.
from_json(type, w) ==
  IF w.json = "object" /\ w.name = "Err" /\ ~w.null
  THEN ResponseErr(type, w.content)
  ELSE IF type = "GetResponse"
       THEN IF w.json = "object" /\ w.name = "Ok"
            THEN IF w.null THEN ResponseOk(type)
                 ELSE ResponseOkSome(type, w.content)
            ELSE DecodeError
       ELSE IF (w.json = "string" /\ w.content = "Ok")
               \/ (w.json = "object" /\ w.name = "Ok" /\ w.null)
            THEN ResponseOk(type)
            ELSE DecodeError

\* What a client sends on a connection: the JSON of a Request or other
\* bytes ("garbage"), ended by a newline, or by the end of the stream with
\* no newline ("eof"); or the read fails ("error").
RequestLine(op, k, v, end) == [op |-> op, key |-> k, value |-> v, end |-> end]

Lines(t) ==
  {RequestLine(op, k, "", end) :
     op \in {"Get", "Rm"}, k \in Keys, end \in {"newline", "eof"}}
  \cup {RequestLine("Set", k, ValueOf(t), end) :
          k \in Keys, end \in {"newline", "eof"}}
  \cup {RequestLine("garbage", "", "", end) :
          end \in {"newline", "eof", "error"}}

\* read_until(b'\n'), buffer.pop(), serde_json::from_slice::<Request>: the
\* pop removes the newline, or the last byte of a line that has none.
request_of(line) ==
  IF line.end = "error" THEN Err(IoError)
  ELSE IF line.end = "newline" /\ line.op # "garbage" THEN Ok
  ELSE Err(SerdeError)

NoConn ==
  [state |-> "none", line |-> RequestLine("", "", "", ""), out |-> <<>>,
   shutdown |-> FALSE]

\* ------------------------------------------------------------------ start-up

\* At most MaxStarts starts of kvs-server in the working directory.
MaxStarts == 4

\* The engine names of the --engine option.
Engines == {"kvs", "sled"}

\* No server process is running.
NoStart == [at |-> "off", engine |-> "", content |-> "", bound |-> FALSE,
            code |-> 0]

\* ------------------------------------------------------------------ workers

\* ThreadPool::new(n): n worker slots, ids 0 .. n-1.
NWorkers == 2

\* At most MaxQueue tasks wait in the channel.
MaxQueue == 2

\* At most MaxPanics tasks that panic are ever spawned.
MaxPanics == 2

\* A task (a boxed closure) either returns or panics.
Tasks == {"returns", "panics"}

Slots == 0..(NWorkers - 1)

\* At most MaxTasks tasks are ever spawned.
MaxTasks == 4

\* No thread holds the receiver's mutex.
NoSlot == 0 - 1

\* Worker::new(id, rx): a new thread, the gen-th started for the slot, in
\* its loop at rx.lock().unwrap().recv().
Worker_new(id, gen) == [id |-> id, gen |-> gen, at |-> "recv"]

\* KvStore::open on an empty directory: 1.log is created and is the active
\* segment; the handle returned by open caches a reader for it.
Init ==
  /\ log = [v \in {1} |-> <<>>]
  /\ index = EmptyIndex
  /\ current_ver = 1
  /\ current_len = 0
  /\ old_log_len = 0
  /\ min_version = 0
  /\ kv_writer = NoThread
  /\ readers = {}
  /\ write_locked = NoThread
  /\ ver_to_file = [t \in Threads |-> IF t = "t1" THEN {1} ELSE {}]
  /\ pc = [t \in Threads |-> "idle"]
  /\ arg = [t \in Threads |-> NoArg]
  /\ local = [t \in Threads |-> NoEntry]
  /\ res = [t \in Threads |-> NoRes]
  /\ order = <<>>
  /\ dict = EmptyDict
  /\ status = "open"
  /\ opens = 1
  /\ cur = [k \in Keys |-> Absent]
  /\ seen = [t \in Threads |-> {}]
  /\ overlap = [t \in Threads |-> FALSE]
  /\ conn = [t \in Threads |-> NoConn]
  /\ worker = [i \in Slots |-> Worker_new(i, 0)]
  /\ queue = <<>>
  /\ dead = <<>>
  /\ polling = 0
  /\ scanned = worker
  /\ pool = "live"
  /\ joined = 0
  /\ rx_lock = NoSlot
  /\ spawned = 0 /\ received = 0 /\ ran = 0
  /\ meta = ""
  /\ start = NoStart
  /\ started = <<>>

\* A plausible slip: the writer is used without taking its lock.
kv_writer_unlocked(t) == NoThread

\* self.kv_writer.lock(): t owns the Mutex<KvStoreWriter>.
kv_writer_lock(t) == t

\* The call of thread t returns r: the MutexGuard, if t holds it, is dropped.
Returns(t, r) ==
  /\ pc' = [pc EXCEPT ![t] = "done"]
  /\ res' = [res EXCEPT ![t] = r]
  /\ kv_writer' = IF kv_writer = t THEN NoThread ELSE kv_writer

\* History: the index now gives key k the value x.
Linearise(k, x) ==
  /\ cur' = [cur EXCEPT ![k] = x]
  /\ seen' = [u \in Threads |->
               IF pc[u] = "get_read" /\ arg[u].key = k
               THEN seen[u] \cup {x} ELSE seen[u]]

\* History: a write of key k starts.
WriteStarts(k) ==
  overlap' = [u \in Threads |->
               overlap[u] \/ (pc[u] = "get_read" /\ arg[u].key = k)]

\* ------------------------------------------------------------------ writer

\* A plausible slip: flush() rotates but never tests old_log_len against
\* THRESHOLD, so compact() never runs.
to_flush_no_compact(t, len, dir) ==
  IF len < ACTIVE_THRESHOLD
  THEN /\ current_len' = len
       /\ log' = dir
       /\ UNCHANGED <<old_log_len, current_ver>>
       /\ Returns(t, Ok)
  ELSE /\ old_log_len' = old_log_len + len
       /\ current_len' = 0
       /\ current_ver' = current_ver + 1
       /\ log' = CreateFile(dir, current_ver + 1)
       /\ Returns(t, Ok)

\* to_flush() and, below the threshold test, flush(): with len bytes in the
\* active segment and dir the directory after the write.  Either the call
\* returns (rotating first when the segment is full), or compact() is due.
to_flush(t, len, dir) ==
  IF len < ACTIVE_THRESHOLD
  THEN /\ current_len' = len
       /\ log' = dir
       /\ UNCHANGED <<old_log_len, current_ver>>
       /\ Returns(t, Ok)
  ELSE /\ old_log_len' = old_log_len + len
       /\ current_len' = 0
       /\ IF old_log_len + len >= THRESHOLD
          THEN /\ pc' = [pc EXCEPT ![t] = "compact"]
               /\ log' = dir
               /\ UNCHANGED <<current_ver, res, kv_writer>>
          ELSE /\ current_ver' = current_ver + 1
               /\ log' = CreateFile(dir, current_ver + 1)
               /\ Returns(t, Ok)

\* A plausible slip: the position is taken after write_all, at the end of
\* the line just written.
seek_end_after_write(dir, v, o) == FileLen(dir[v]) + SerialLen(o)

\* self.writer.seek(SeekFrom::End(0)), line 299, before record o is written
\* to <v>.log: the length of the file.
seek_end(dir, v, o) == FileLen(dir[v])

\* KvStore::set, lines 473-476 and 292-301: lock the writer, serialise,
\* current_len += len, pos = seek(End(0)), write_all, flush.
SetAppend(t, k) ==
  /\ status = "open" /\ pc[t] = "idle"
  /\ kv_writer = NoThread
  /\ current_ver <= MaxVer
  /\ LET o == OpSet(k, ValueOf(t)) IN
       /\ current_len' = current_len + SerialLen(o)
       /\ local' = [local EXCEPT ![t] =
                     InMemIndex(0, seek_end(log, current_ver, o))]
       /\ log' = AppendTo(log, current_ver, o)
  /\ kv_writer' = kv_writer_lock(t)
  /\ pc' = [pc EXCEPT ![t] = "set_index"]
  /\ arg' = [arg EXCEPT ![t] = [op |-> "set", key |-> k]]
  /\ WriteStarts(k)
  /\ UNCHANGED <<index, current_ver, old_log_len, min_version, readers,
                 write_locked, ver_to_file, res, compactVars, status, opens,
                 cur, seen>>
  /\ UNCHANGED <<serverVars, poolVars>>

\* set, lines 302-323: under entry_to_index.write(), point the key at
\* (current_ver, pos); then to_flush().
SetIndex(t) ==
  /\ status = "open" /\ pc[t] = "set_index"
  /\ readers = {} /\ write_locked = NoThread
  /\ index' = index_upsert(index, arg[t].key,
                          InMemIndex(current_ver, local[t].start_pos))
  /\ Linearise(arg[t].key, ValueOf(t))
  /\ to_flush(t, current_len, log)
  /\ UNCHANGED <<min_version, readers, write_locked, ver_to_file, arg, local,
                 compactVars, status, opens, overlap>>
  /\ UNCHANGED <<serverVars, poolVars>>

\* A plausible slip: the Rm line is serialised and counted in current_len
\* before the key is looked up, as set counts its line first.
RemoveCheckCounted(t, k) ==
  /\ status = "open" /\ pc[t] = "idle"
  /\ kv_writer = NoThread /\ write_locked = NoThread
  /\ current_ver <= MaxVer
  /\ arg' = [arg EXCEPT ![t] = [op |-> "rm", key |-> k]]
  /\ seen' = [seen EXCEPT ![t] = {cur[k]}]
  /\ current_len' = current_len + SerialLen(OpRm(k))
  /\ IF contains_key(index, k)
     THEN /\ kv_writer' = t
          /\ pc' = [pc EXCEPT ![t] = "rm_index"]
          /\ WriteStarts(k)
          /\ UNCHANGED res
     ELSE /\ pc' = [pc EXCEPT ![t] = "done"]
          /\ res' = [res EXCEPT ![t] = Err(KeyNotFound)]
          /\ UNCHANGED <<kv_writer, overlap>>
  /\ UNCHANGED <<log, index, current_ver, old_log_len, min_version, readers,
                 write_locked, ver_to_file, local, compactVars, status, opens,
                 cur>>
  /\ UNCHANGED <<serverVars, poolVars>>

\* KvStore::remove, lines 523-526 and 327-332: lock the writer, look the key
\* up under entry_to_index.read(); KeyNotFound when it is absent.
RemoveCheck(t, k) ==
  /\ status = "open" /\ pc[t] = "idle"
  /\ kv_writer = NoThread /\ write_locked = NoThread
  /\ current_ver <= MaxVer
  /\ arg' = [arg EXCEPT ![t] = [op |-> "rm", key |-> k]]
  /\ seen' = [seen EXCEPT ![t] = {cur[k]}]
  /\ IF contains_key(index, k)
     THEN /\ kv_writer' = kv_writer_lock(t)
          /\ pc' = [pc EXCEPT ![t] = "rm_index"]
          /\ WriteStarts(k)
          /\ UNCHANGED res
     ELSE /\ pc' = [pc EXCEPT ![t] = "done"]
          /\ res' = [res EXCEPT ![t] = Err(KeyNotFound)]
          /\ UNCHANGED <<kv_writer, overlap>>
  /\ UNCHANGED <<log, index, writerVars, readers, write_locked, ver_to_file,
                 local, compactVars, status, opens, cur>>
  /\ UNCHANGED <<serverVars, poolVars>>

\* remove, lines 333-336: take the key out of the index under
\* entry_to_index.write().
RemoveIndex(t) ==
  /\ status = "open" /\ pc[t] = "rm_index"
  /\ readers = {} /\ write_locked = NoThread
  /\ index' = index_remove(index, arg[t].key)
  /\ Linearise(arg[t].key, Absent)
  /\ pc' = [pc EXCEPT ![t] = "rm_append"]
  /\ UNCHANGED <<log, writerVars, lockVars, ver_to_file, arg, local, res,
                 compactVars, status, opens, overlap>>
  /\ UNCHANGED <<serverVars, poolVars>>

\* A plausible slip: remove writes its line and returns without to_flush().
RemoveAppendNoFlush(t) ==
  /\ status = "open" /\ pc[t] = "rm_append"
  /\ LET o == OpRm(arg[t].key) IN
       /\ current_len' = current_len + SerialLen(o)
       /\ log' = AppendTo(log, current_ver, o)
  /\ Returns(t, Ok)
  /\ UNCHANGED <<old_log_len, current_ver>>
  /\ UNCHANGED <<index, min_version, readers, write_locked, ver_to_file, arg,
                 local, compactVars, status, opens, historyVars>>
  /\ UNCHANGED <<serverVars, poolVars>>

\* remove, lines 338-345: serialise Rm, current_len += len, write_all, flush;
\* then to_flush().
RemoveAppend(t) ==
  /\ status = "open" /\ pc[t] = "rm_append"
  /\ LET o == OpRm(arg[t].key) IN
       to_flush(t, current_len + SerialLen(o), AppendTo(log, current_ver, o))
  /\ UNCHANGED <<index, min_version, readers, write_locked, ver_to_file, arg,
                 local, compactVars, status, opens, historyVars>>
  /\ UNCHANGED <<serverVars, poolVars>>

\* ------------------------------------------------------------------ compact

\* compact(), lines 382-398: entry_to_index.write(), traverse_dir, then
\* current_ver += 1 and <current_ver>.log is created for the output.
CompactBegin(t) ==
  /\ status = "open" /\ pc[t] = "compact"
  /\ readers = {} /\ write_locked = NoThread
  /\ write_locked' = t
  /\ order' = traverse_dir(log).version_list
  /\ dict' = EmptyDict
  /\ current_ver' = current_ver + 1
  /\ log' = CreateFile(log, current_ver + 1)
  /\ pc' = [pc EXCEPT ![t] = "compact_scan"]
  /\ UNCHANGED <<index, current_len, old_log_len, min_version, kv_writer,
                 readers, ver_to_file, arg, local, res, status, opens,
                 historyVars>>
  /\ UNCHANGED <<serverVars, poolVars>>

\* A plausible slip: the file is read but fs::remove_file is left out.
CompactScanKeepsFile(t) ==
  /\ status = "open" /\ pc[t] = "compact_scan"
  /\ order # <<>>
  /\ LET ver == Head(order)
         st == CompactLines([ok |-> TRUE, dict |-> dict], log[ver], 1)
     IN IF st.ok
        THEN /\ dict' = st.dict
             /\ order' = Tail(order)
             /\ UNCHANGED <<status, log>>
        ELSE /\ status' = "panicked"
             /\ UNCHANGED <<dict, log, order>>
  /\ UNCHANGED <<index, writerVars, lockVars, ver_to_file, threadVars, opens,
                 historyVars>>
  /\ UNCHANGED <<serverVars, poolVars>>

\* compact(), lines 400-424, one turn of the loop: read every line of the
\* next file into dict, then remove the file.
CompactScan(t) ==
  /\ status = "open" /\ pc[t] = "compact_scan"
  /\ order # <<>>
  /\ LET ver == Head(order)
         st == CompactLines([ok |-> TRUE, dict |-> dict], log[ver], 1)
     IN IF st.ok
        THEN /\ dict' = st.dict
             /\ log' = RemoveFile(log, ver)
             /\ order' = Tail(order)
             /\ UNCHANGED status
        ELSE /\ status' = "panicked"
             /\ UNCHANGED <<dict, log, order>>
  /\ UNCHANGED <<index, writerVars, lockVars, ver_to_file, threadVars, opens,
                 historyVars>>
  /\ UNCHANGED <<serverVars, poolVars>>

\* The orders in which a HashMap can yield the keys of S.
Orders(S) ==
  {s \in [1..Cardinality(S) -> S] : \A i, j \in DOMAIN s : s[i] = s[j] => i = j}

\* The records compact() writes for dict d when into_iter() yields ord.
CompactOutput(d, ord) == [i \in 1..Len(ord) |-> OpSet(ord[i], d[ord[i]])]

\* A plausible slip: offset is never advanced.
CompactIndexNoOffset(d, ord, v) ==
  [k \in Keys |-> IF d[k] = Absent THEN NoEntry ELSE InMemIndex(v, 0)]

\* The index compact() builds: offsets count up from 0 in output order.
CompactIndex(d, ord, v) ==
  [k \in Keys |->
     IF d[k] = Absent THEN NoEntry
     ELSE LET i == CHOOSE j \in 1..Len(ord) : ord[j] = k
          IN InMemIndex(v, StartPos(CompactOutput(d, ord), i))]

\* A plausible slip: the version is published as it was before compact()
\* advanced it, which is the version of the segment just sealed.
min_version_store_sealed(ver) == ver - 1

\* self.min_version.store(self.current_ver as u32, Ordering::SeqCst), for
\* versions that fit 32 bits.
min_version_store(ver) == ver

\* A plausible slip: after compact() flush() keeps the compaction's output as
\* the active segment instead of opening <current_ver + 1>.log.
CompactWriteNoRotate(t) ==
  /\ status = "open" /\ pc[t] = "compact_scan"
  /\ order = <<>>
  /\ \E ord \in Orders({k \in Keys : dict[k] # Absent}) :
       /\ index' = CompactIndex(dict, ord, current_ver)
       /\ log' = [log EXCEPT ![current_ver] = @ \o CompactOutput(dict, ord)]
  /\ min_version' = min_version_store(current_ver)
  /\ old_log_len' = 0
  /\ write_locked' = NoThread
  /\ Returns(t, Ok)
  /\ UNCHANGED <<current_ver, current_len, readers, ver_to_file, arg, local,
                 compactVars, status, opens, historyVars>>
  /\ UNCHANGED <<serverVars, poolVars>>

\* compact(), lines 426-447, and the rest of flush(), lines 368-376: clear
\* the index, write one Set per key of dict and point the key at it, flush,
\* publish min_version, old_log_len = 0; then current_ver += 1, the new
\* active segment is created and the call returns.
CompactWrite(t) ==
  /\ status = "open" /\ pc[t] = "compact_scan"
  /\ order = <<>>
  /\ \E ord \in Orders({k \in Keys : dict[k] # Absent}) :
       /\ index' = CompactIndex(dict, ord, current_ver)
       /\ log' = CreateFile(
                   [log EXCEPT ![current_ver] = @ \o CompactOutput(dict, ord)],
                   current_ver + 1)
  /\ min_version' = min_version_store(current_ver)
  /\ old_log_len' = 0
  /\ write_locked' = NoThread
  /\ current_ver' = current_ver + 1
  /\ Returns(t, Ok)
  /\ UNCHANGED <<current_len, readers, ver_to_file, arg, local, compactVars,
                 status, opens, historyVars>>
  /\ UNCHANGED <<serverVars, poolVars>>

\* ------------------------------------------------------------------ reader

\* KvStoreReader::clean: drop the cached handles below min_version.
clean(cache) == {v \in cache : v >= min_version}

\* A plausible slip: the read guard is dropped before the record is read.
read_lock_dropped(t) == readers

\* self.entry_to_index.read(): t joins the holders of the shared lock.
read_lock(t) == readers \cup {t}

\* A plausible slip: absence reported as the KeyNotFound error.
NotPresentAsError == Err(KeyNotFound)

\* get of a key that is not in the index: Ok(None).
NotPresent == OkNone

\* KvStore::get, lines 494-498 and 503-504: take entry_to_index.read() and
\* look the key up; Ok(None) when it is absent, else copy its InMemIndex.
GetLookup(t, k) ==
  /\ status = "open" /\ pc[t] = "idle"
  /\ write_locked = NoThread
  /\ arg' = [arg EXCEPT ![t] = [op |-> "get", key |-> k]]
  /\ seen' = [seen EXCEPT ![t] = {cur[k]}]
  /\ overlap' = [overlap EXCEPT ![t] = \E u \in Threads : Writing(u, k)]
  /\ IF contains_key(index, k)
     THEN /\ readers' = read_lock(t)
          /\ local' = [local EXCEPT ![t] = index[k]]
          /\ pc' = [pc EXCEPT ![t] = "get_read"]
          /\ UNCHANGED res
     ELSE /\ pc' = [pc EXCEPT ![t] = "done"]
          /\ res' = [res EXCEPT ![t] = NotPresent]
          /\ UNCHANGED <<readers, local>>
  /\ UNCHANGED <<log, index, writerVars, kv_writer, write_locked, ver_to_file,
                 compactVars, status, opens, cur>>
  /\ UNCHANGED <<serverVars, poolVars>>

\* A plausible slip: the match on the decoded Op hands out the value field
\* of whatever record was decoded.
ReadEntryUntyped(dir, e, cache) ==
  IF e.version \notin cache /\ e.version \notin DOMAIN dir
  THEN Err(IoError)
  ELSE LET f == IF e.version \in DOMAIN dir THEN dir[e.version] ELSE <<>>
           o == RecordAt(f, e.start_pos)
       IN IF o.op \in {"Set", "Rm"} THEN OkSome(o.value)
          ELSE Err(SerdeError)

\* What KvStoreReader::get returns for InMemIndex e with the handles in
\* cache (already cleaned): load() fails when the file is not cached and not
\* on disk; the line at start_pos is decoded; a Rm is UnexpectedType.  (A
\* cached handle of a removed file would still read the removed file; the
\* model keeps no removed file, and clean() has dropped every such handle:
\* compact() removes only versions below the min_version it publishes.)
ReadEntry(dir, e, cache) ==
  IF e.version \notin cache /\ e.version \notin DOMAIN dir
  THEN Err(IoError)
  ELSE LET f == IF e.version \in DOMAIN dir THEN dir[e.version] ELSE <<>>
           o == RecordAt(f, e.start_pos)
       IN IF o.op = "Set" THEN OkSome(o.value)
          ELSE IF o.op = "Rm" THEN Err(UnexpectedType)
          ELSE Err(SerdeError)

\* A plausible slip: the read guard is leaked (mem::forget) and never
\* released.
GetReadKeepsGuard(t) ==
  /\ status = "open" /\ pc[t] = "get_read"
  /\ LET cache == clean(ver_to_file[t])
         r == ReadEntry(log, local[t], cache)
     IN /\ ver_to_file' = [ver_to_file EXCEPT ![t] =
                             IF r = Err(IoError) THEN cache
                             ELSE cache \cup {local[t].version}]
        /\ res' = [res EXCEPT ![t] = r]
  /\ pc' = [pc EXCEPT ![t] = "done"]
  /\ UNCHANGED <<log, index, writerVars, lockVars, arg, local,
                 compactVars, status, opens, historyVars>>
  /\ UNCHANGED <<serverVars, poolVars>>

\* KvStore::get, lines 499-502, with KvStoreReader::get: clean(), read the
\* record through the cached handle or a newly loaded one, and return; the
\* read guard is dropped on return.
GetRead(t) ==
  /\ status = "open" /\ pc[t] = "get_read"
  /\ LET cache == clean(ver_to_file[t])
         r == ReadEntry(log, local[t], cache)
     IN /\ ver_to_file' = [ver_to_file EXCEPT ![t] =
                             IF r = Err(IoError) THEN cache
                             ELSE cache \cup {local[t].version}]
        /\ res' = [res EXCEPT ![t] = r]
  /\ readers' = readers \ {t}
  /\ pc' = [pc EXCEPT ![t] = "done"]
  /\ UNCHANGED <<log, index, writerVars, kv_writer, write_locked, arg, local,
                 compactVars, status, opens, historyVars>>
  /\ UNCHANGED <<serverVars, poolVars>>

\* The caller takes the result; the thread is free for its next call.
Return(t) ==
  /\ pc[t] = "done"
  /\ pc' = [pc EXCEPT ![t] = "idle"]
  /\ arg' = [arg EXCEPT ![t] = NoArg]
  /\ local' = [local EXCEPT ![t] = NoEntry]
  /\ res' = [res EXCEPT ![t] = NoRes]
  /\ seen' = [seen EXCEPT ![t] = {}]
  /\ overlap' = [overlap EXCEPT ![t] = FALSE]
  /\ UNCHANGED <<log, index, writerVars, lockVars, ver_to_file, compactVars,
                 status, opens, cur>>
  /\ UNCHANGED <<serverVars, poolVars>>

\* ------------------------------------------------------------------ open

\* What a get result says the key holds.
AsValue(r) ==
  IF r.kind = "Some" THEN r.value
  ELSE IF r.kind = "None" THEN Absent
  ELSE "<error>"

\* get(k) computed on index ix and directory dir by a reader with no cached
\* handle.
GetValue(ix, dir, k) ==
  IF contains_key(ix, k) THEN ReadEntry(dir, ix[k], {}) ELSE NotPresent

\* What get(k) would return after a reopen of directory dir.
Recovered(dir, k) ==
  IF Replay(dir).ok THEN AsValue(GetValue(Replay(dir).index, dir, k))
  ELSE "<panic>"

\* KvStore::open on the directory as it is: KvStoreWriter::new replays every
\* file in ascending version, creates <max + 1>.log as the active segment and
\* starts with old_log_len = the bytes found; the new handle caches a reader
\* per file, its clones start with none.  The .expect() of the replay panics
\* on a Rm of a key that is not in the index.
KvStore_open ==
  /\ opens' = opens + 1
  /\ LET st == Replay(log)
         found == traverse_dir(log)
         active == found.version_list[Len(found.version_list)] + 1
     IN IF st.ok
        THEN /\ index' = st.index
             /\ log' = CreateFile(log, active)
             /\ current_ver' = active
             /\ current_len' = 0
             /\ old_log_len' = found.total_len
             /\ min_version' = 0
             /\ ver_to_file' = [t \in Threads |->
                                  IF t = "t1" THEN DOMAIN log \cup {active}
                                  ELSE {}]
             /\ UNCHANGED status
        ELSE /\ status' = "panicked"
             /\ UNCHANGED <<index, log, writerVars, ver_to_file>>

\* The store is dropped with no call in flight and KvStore::open runs on the
\* same directory.
Reopen ==
  /\ status = "open" /\ opens < MaxOpens
  /\ \A t \in Threads : pc[t] = "idle"
  /\ KvStore_open
  /\ UNCHANGED <<lockVars, threadVars, compactVars, historyVars>>
  /\ UNCHANGED <<serverVars, poolVars>>

\* The process is killed while a call is in flight: the calls, the locks and
\* the state of compact() are gone, the files stay as they are, and
\* KvStore::open runs on the directory.  The history restarts from what the
\* open recovers.
CrashReopen ==
  /\ status = "open" /\ opens < MaxOpens
  /\ \E t \in Threads : pc[t] \notin {"idle", "done"}
  /\ KvStore_open
  /\ kv_writer' = NoThread /\ readers' = {} /\ write_locked' = NoThread
  /\ pc' = [t \in Threads |-> "idle"]
  /\ arg' = [t \in Threads |-> NoArg]
  /\ local' = [t \in Threads |-> NoEntry]
  /\ res' = [t \in Threads |-> NoRes]
  /\ order' = <<>> /\ dict' = EmptyDict
  /\ seen' = [t \in Threads |-> {}]
  /\ overlap' = [t \in Threads |-> FALSE]
  /\ cur' = IF Replay(log).ok
            THEN [k \in Keys |-> Recovered(log, k)]
            ELSE cur
  /\ UNCHANGED <<serverVars, poolVars>>

\* ------------------------------------------------------------------ pool

\* The tasks that panic, spawned so far: waiting, running, or the end of a
\* worker (every replacement follows one).
RECURSIVE SumGen(_)
SumGen(S) ==
  IF S = {} THEN 0
  ELSE LET i == CHOOSE x \in S : TRUE
       IN worker[i].gen + SumGen(S \ {i})

Panics ==
  Cardinality({n \in 1..Len(queue) : queue[n] = "panics"})
  + Cardinality({i \in Slots : worker[i].at \in {"panics", "finished"}})
  + SumGen(Slots)

\* ThreadPool::spawn: the task is sent on the channel.  spawn and poll are
\* calls of the one thread that owns the pool.
spawn(task) ==
  /\ pool = "live" /\ polling = 0
  /\ Len(queue) < MaxQueue
  /\ task = "panics" => Panics < MaxPanics
  /\ spawned < MaxTasks
  /\ queue' = Append(queue, task)
  /\ spawned' = spawned + 1
  /\ UNCHANGED <<worker, dead, polling, scanned, dropVars, engineVars,
                 serverVars, rx_lock, received, ran>>

\* The worker loop, line 70: rx.lock() gives the thread the receiver's
\* mutex when no other thread holds it.
WorkerLock(i) ==
  /\ worker[i].at = "recv" /\ rx_lock = NoSlot
  /\ rx_lock' = i
  /\ UNCHANGED <<worker, queue, dead, polling, scanned, dropVars, engineVars,
                 serverVars, spawned, received, ran>>

\* A plausible slip: the lock is taken in the scrutinee of the match, so
\* that its guard lives until the end of the match and f() runs under it.
WorkerRecvHoldsGuard(i) ==
  /\ worker[i].at = "recv" /\ rx_lock = i /\ queue # <<>>
  /\ worker' = [worker EXCEPT ![i].at = Head(queue)]
  /\ queue' = Tail(queue)
  /\ received' = received + 1
  /\ UNCHANGED <<dead, polling, scanned, dropVars, engineVars, serverVars,
                 rx_lock, spawned, ran>>

\* The worker loop, lines 70-72: under the mutex recv() returns the next
\* task; the guard of the mutex is dropped at the end of the let statement,
\* before the task runs.
WorkerRecv(i) ==
  /\ worker[i].at = "recv" /\ rx_lock = i /\ queue # <<>>
  /\ worker' = [worker EXCEPT ![i].at = Head(queue)]
  /\ queue' = Tail(queue)
  /\ rx_lock' = NoSlot
  /\ received' = received + 1
  /\ UNCHANGED <<dead, polling, scanned, dropVars, engineVars, serverVars,
                 spawned, ran>>

\* The worker loop, lines 73-77: f() runs; when it returns the loop goes on,
\* when it panics the thread unwinds and ends.
WorkerRun(i) ==
  /\ worker[i].at \in Tasks
  /\ worker' = [worker EXCEPT ![i].at =
                  IF worker[i].at = "returns" THEN "recv" ELSE "finished"]
  /\ ran' = ran + 1
  /\ UNCHANGED <<queue, dead, polling, scanned, dropVars, engineVars,
                 serverVars, rx_lock, spawned, received>>

\* A plausible slip: a thread is taken as ended only when it returned, so
\* that a panicked one is never found.
is_end_never(w) == FALSE

\* Worker::is_end: self.handle.is_finished(), true of a thread that has
\* panicked ("finished") or has left its loop ("exited").
is_end(w) == w.at \in {"finished", "exited"}

\* poll(), lines 44-47: the ids of the workers that have ended, in slot
\* order.
PollScan ==
  /\ pool = "live" /\ polling = 0
  /\ dead' = SortedSeq({worker[i].id : i \in {j \in Slots : is_end(worker[j])}})
  /\ polling' = 1
  /\ scanned' = worker
  /\ UNCHANGED <<worker, queue, dropVars, engineVars,
                 serverVars, queueVars>>

\* poll(), lines 48-50, one turn of the loop: self.worker[i] is a new Worker
\* with id i on the same receiver.
PollReplace ==
  /\ polling >= 1 /\ polling <= Len(dead)
  /\ LET i == dead[polling] IN
       worker' = [worker EXCEPT ![i] = Worker_new(i, worker[i].gen + 1)]
  /\ polling' = polling + 1
  /\ UNCHANGED <<queue, dead, scanned, dropVars, engineVars,
                 serverVars, queueVars>>

\* poll() returns; dead is dropped.
PollReturn ==
  /\ polling = Len(dead) + 1
  /\ polling' = 0
  /\ dead' = <<>>
  /\ UNCHANGED <<worker, queue, scanned, dropVars, engineVars,
                 serverVars, queueVars>>

\* The worker loop, lines 70-72 and 78-81: the channel is closed and empty,
\* recv() returns Err under the mutex, the guard is dropped and the thread
\* leaves its loop.
WorkerExit(i) ==
  /\ pool # "live"
  /\ worker[i].at = "recv" /\ rx_lock = i /\ queue = <<>>
  /\ worker' = [worker EXCEPT ![i].at = "exited"]
  /\ rx_lock' = NoSlot
  /\ UNCHANGED <<queue, dead, polling, scanned, dropVars, engineVars,
                 serverVars, spawned, received, ran>>

\* Drop for ThreadPool, lines 56-57: the pool's receiver and the sender are
\* dropped, which closes the channel.
DropBegin ==
  /\ pool = "live" /\ polling = 0
  /\ pool' = "dropping"
  /\ joined' = 0
  /\ UNCHANGED <<worker, queue, dead, polling, scanned, engineVars,
                 serverVars, queueVars>>

\* JoinHandle::join can return once the thread has ended.
join(w) == w.at \in {"finished", "exited"}

\* Drop for ThreadPool, lines 59-62, one turn of the loop over
\* worker.drain(..): join() waits for the thread of the next slot; it returns
\* Err when the thread panicked, and .expect() then panics.
DropJoin ==
  /\ pool = "dropping"
  /\ join(worker[joined])
  /\ IF worker[joined].at = "finished"
     THEN pool' = "panicked" /\ UNCHANGED joined
     ELSE /\ joined' = joined + 1
          /\ pool' = IF joined + 1 = NWorkers THEN "dropped" ELSE "dropping"
  /\ UNCHANGED <<worker, queue, dead, polling, scanned, engineVars,
                 serverVars, queueVars>>

\* The main thread spawns tasks and polls while the workers run, and in the
\* end drops the pool.
PoolNext ==
  \/ \E task \in Tasks : spawn(task)
  \/ \E i \in Slots : WorkerLock(i)
  \/ \E i \in Slots : WorkerRecv(i)
  \/ \E i \in Slots : WorkerRun(i)
  \/ PollScan
  \/ PollReplace
  \/ PollReturn
  \/ \E i \in Slots : WorkerExit(i)
  \/ DropBegin
  \/ DropJoin

PoolSpec == Init /\ [][PoolNext]_vars

\* A step of the thread of slot i.
WorkerStep(i) == WorkerLock(i) \/ WorkerRecv(i) \/ WorkerRun(i)

\* The worker threads are scheduled fairly: a thread that can go on does.
\* Nothing is assumed of the owner of the pool.
FairPoolSpec == PoolSpec /\ \A i \in Slots : WF_vars(WorkerStep(i))

\* ------------------------------------------------------------------ server

\* handle_error: the Display text of the error is written to the stream as
\* it is.
handle_error(e) == PlainText(to_string(e))

\* The task of a connection starts on worker t with a clone of the store
\* (a reader with no cached handle), and handle_stream, lines 9-24, reads the
\* request: a line that does not decode as a Request, or a failed read, is
\* answered by handle_error and the function returns.
HandleStreamRead(t, line) ==
  /\ status = "open" /\ pc[t] = "idle"
  /\ conn[t].state = "none"
  /\ ver_to_file' = [ver_to_file EXCEPT ![t] = {}]
  /\ conn' = [conn EXCEPT ![t] =
       IF request_of(line) = Ok
       THEN [state |-> "read", line |-> line, out |-> <<>>, shutdown |-> FALSE]
       ELSE [state |-> "responded", line |-> line,
             out |-> <<handle_error(request_of(line).value)>>,
             shutdown |-> FALSE]]
  /\ UNCHANGED <<log, index, writerVars, lockVars, threadVars, compactVars,
                 status, opens, historyVars, poolVars, startVars>>

\* handle_stream, lines 26-73, after the engine call has returned: the
\* result is converted into the response of the request, serialised, written,
\* and the write side is shut down.  (serde_json::to_string does not fail on
\* these enums.)
Respond(t) ==
  /\ pc[t] = "done" /\ conn[t].state = "read"
  /\ conn' = [conn EXCEPT ![t] =
       [@ EXCEPT !.state = "responded",
                 !.out = Append(@, to_json(Response_from(
                            ResponseType(conn[t].line.op), res[t]))),
                 !.shutdown = TRUE]]
  /\ pc' = [pc EXCEPT ![t] = "idle"]
  /\ arg' = [arg EXCEPT ![t] = NoArg]
  /\ local' = [local EXCEPT ![t] = NoEntry]
  /\ res' = [res EXCEPT ![t] = NoRes]
  /\ seen' = [seen EXCEPT ![t] = {}]
  /\ overlap' = [overlap EXCEPT ![t] = FALSE]
  /\ UNCHANGED <<log, index, writerVars, lockVars, ver_to_file, compactVars,
                 status, opens, cur, poolVars, startVars>>

\* handle_stream has returned: the TcpStream is dropped and the worker is
\* free for the next task.
Close(t) ==
  /\ conn[t].state = "responded"
  /\ conn' = [conn EXCEPT ![t] = NoConn]
  /\ UNCHANGED <<engineVars, poolVars, startVars>>

\* The request that worker t has read and not yet passed to the engine.
Requested(t, op, k) ==
  /\ conn[t].state = "read"
  /\ conn[t].line.op = op /\ conn[t].line.key = k

\* Connections are handled in parallel by the workers, each calling the
\* engine for the request it has read.
ServerNext ==
  \/ \E t \in Threads : \E line \in Lines(t) : HandleStreamRead(t, line)
  \/ \E t \in Threads, k \in Keys : Requested(t, "Set", k) /\ SetAppend(t, k)
  \/ \E t \in Threads : SetIndex(t)
  \/ \E t \in Threads, k \in Keys : Requested(t, "Rm", k) /\ RemoveCheck(t, k)
  \/ \E t \in Threads : RemoveIndex(t)
  \/ \E t \in Threads : RemoveAppend(t)
  \/ \E t \in Threads : CompactBegin(t)
  \/ \E t \in Threads : CompactScan(t)
  \/ \E t \in Threads : CompactWrite(t)
  \/ \E t \in Threads, k \in Keys : Requested(t, "Get", k) /\ GetLookup(t, k)
  \/ \E t \in Threads : GetRead(t)
  \/ \E t \in Threads : Respond(t)
  \/ \E t \in Threads : Close(t)

ServerSpec == Init /\ [][ServerNext]_vars

\* Threads call in parallel.
Next ==
  \/ \E t \in Threads, k \in Keys : SetAppend(t, k)
  \/ \E t \in Threads : SetIndex(t)
  \/ \E t \in Threads, k \in Keys : RemoveCheck(t, k)
  \/ \E t \in Threads : RemoveIndex(t)
  \/ \E t \in Threads : RemoveAppend(t)
  \/ \E t \in Threads : CompactBegin(t)
  \/ \E t \in Threads : CompactScan(t)
  \/ \E t \in Threads : CompactWrite(t)
  \/ \E t \in Threads, k \in Keys : GetLookup(t, k)
  \/ \E t \in Threads : GetRead(t)
  \/ \E t \in Threads : Return(t)

Spec == Init /\ [][Next]_vars

\* The step of thread t that takes entry_to_index.write(), in set, remove
\* or compact().
WriteLockStep(t) == SetIndex(t) \/ RemoveIndex(t) \/ CompactBegin(t)

\* A step of thread t that waits for nothing.
RunStep(t) ==
  RemoveAppend(t) \/ CompactScan(t) \/ CompactWrite(t) \/ GetRead(t)

\* The threads are scheduled fairly: a thread that can take its next step
\* takes it.  A step that takes entry_to_index.write() is taken if it is
\* possible again and again: the lock lets a waiting writer in when the
\* readers that hold it have left.
FairSpec ==
  /\ Spec
  /\ \A t \in Threads : SF_vars(WriteLockStep(t)) /\ WF_vars(RunStep(t))

\* One call at a time, from either clone, and the store may be closed and
\* opened again between two calls.
Quiet(t) == \A u \in Threads \ {t} : pc[u] = "idle"

SeqNext ==
  \/ \E t \in Threads, k \in Keys : Quiet(t) /\ SetAppend(t, k)
  \/ \E t \in Threads : SetIndex(t)
  \/ \E t \in Threads, k \in Keys : Quiet(t) /\ RemoveCheck(t, k)
  \/ \E t \in Threads : RemoveIndex(t)
  \/ \E t \in Threads : RemoveAppend(t)
  \/ \E t \in Threads : CompactBegin(t)
  \/ \E t \in Threads : CompactScan(t)
  \/ \E t \in Threads : CompactWrite(t)
  \/ \E t \in Threads, k \in Keys : Quiet(t) /\ GetLookup(t, k)
  \/ \E t \in Threads : GetRead(t)
  \/ \E t \in Threads : Return(t)
  \/ Reopen

SeqSpec == Init /\ [][SeqNext]_vars

\* One call at a time, and the process may also be killed in the middle of a
\* call and the store opened again.
CrashNext ==
  \/ SeqNext
  \/ CrashReopen

CrashSpec == Init /\ [][CrashNext]_vars

\* The InMemIndex values a caller of KvStoreReader::get may pass: any
\* version in the directory or a missing one, with an offset at the start of
\* a line, inside a line, or at the end of a file.
Entries(dir) ==
  {InMemIndex(v, off) :
     v \in DOMAIN dir \cup {0},
     off \in {1} \cup UNION {{StartPos(dir[w], i) : i \in 1..(Len(dir[w]) + 1)} :
                               w \in DOMAIN dir}}

\* pub fn KvStoreReader::get(&self, index: InMemIndex), lines 111-133, called
\* on the reader of clone t: clean(), the cached handle or load(), seek,
\* read_line, decode, match.
KvStoreReader_get(t, e) ==
  /\ status = "open" /\ pc[t] = "idle"
  /\ arg' = [arg EXCEPT ![t] = [op |-> "read", key |-> ""]]
  /\ local' = [local EXCEPT ![t] = e]
  /\ LET cache == clean(ver_to_file[t])
         r == ReadEntry(log, e, cache)
     IN /\ ver_to_file' = [ver_to_file EXCEPT ![t] =
                             IF r = Err(IoError) THEN cache
                             ELSE cache \cup {e.version}]
        /\ res' = [res EXCEPT ![t] = r]
  /\ pc' = [pc EXCEPT ![t] = "done"]
  /\ UNCHANGED <<log, index, writerVars, lockVars, compactVars, status, opens,
                 historyVars>>
  /\ UNCHANGED <<serverVars, poolVars>>

\* One call at a time: the store's owner t1 writes, and the reader of the
\* clone t2 is handed index entries of any kind.
ReaderNext ==
  \/ \E k \in Keys : Quiet("t1") /\ SetAppend("t1", k)
  \/ SetIndex("t1")
  \/ \E k \in Keys : Quiet("t1") /\ RemoveCheck("t1", k)
  \/ RemoveIndex("t1")
  \/ RemoveAppend("t1")
  \/ CompactBegin("t1")
  \/ CompactScan("t1")
  \/ CompactWrite("t1")
  \/ \E e \in Entries(log) : Quiet("t2") /\ KvStoreReader_get("t2", e)
  \/ \E t \in Threads : Return(t)

ReaderSpec == Init /\ [][ReaderNext]_vars

\* ------------------------------------------------------------------ faults

\* current_len may run at most MaxDrift bytes ahead of the active file.
MaxDrift == 32

\* The bytes current_len counts that are not in the active file.
Drift == current_len - FileLen(log[current_ver])

\* KvStore::set, lines 473-476 and 292-301, when seek, write_all or flush
\* fails: current_len was already advanced at line 298, `?` returns the
\* error, nothing has reached the file and the index is not touched.
SetAppendFails(t, k) ==
  /\ status = "open" /\ pc[t] = "idle"
  /\ kv_writer = NoThread
  /\ current_ver <= MaxVer
  /\ Drift + SerialLen(OpSet(k, ValueOf(t))) <= MaxDrift
  /\ current_len' = current_len + SerialLen(OpSet(k, ValueOf(t)))
  /\ arg' = [arg EXCEPT ![t] = [op |-> "set", key |-> k]]
  /\ Returns(t, Err(IoError))
  /\ UNCHANGED <<log, index, current_ver, old_log_len, min_version, readers,
                 write_locked, ver_to_file, local, compactVars, status, opens,
                 historyVars>>
  /\ UNCHANGED <<serverVars, poolVars>>

\* remove, lines 338-343, when write_all or flush fails: the key was taken
\* out of the index at lines 333-336, current_len was advanced at line 341,
\* `?` returns the error and nothing has reached the file.
RemoveAppendFails(t) ==
  /\ status = "open" /\ pc[t] = "rm_append"
  /\ Drift + SerialLen(OpRm(arg[t].key)) <= MaxDrift
  /\ current_len' = current_len + SerialLen(OpRm(arg[t].key))
  /\ Returns(t, Err(IoError))
  /\ UNCHANGED <<log, index, current_ver, old_log_len, min_version, readers,
                 write_locked, ver_to_file, arg, local, compactVars, status,
                 opens, historyVars>>
  /\ UNCHANGED <<serverVars, poolVars>>

\* One call at a time: the store's owner t1 writes, a write to the active
\* file may fail, and the clone t2 reads.
IoFailNext ==
  \/ \E k \in Keys : Quiet("t1") /\ SetAppend("t1", k)
  \/ \E k \in Keys : Quiet("t1") /\ SetAppendFails("t1", k)
  \/ SetIndex("t1")
  \/ \E k \in Keys : Quiet("t1") /\ RemoveCheck("t1", k)
  \/ RemoveIndex("t1")
  \/ RemoveAppend("t1")
  \/ RemoveAppendFails("t1")
  \/ CompactBegin("t1")
  \/ CompactScan("t1")
  \/ CompactWrite("t1")
  \/ \E k \in Keys : Quiet("t2") /\ GetLookup("t2", k)
  \/ GetRead("t2")
  \/ \E t \in Threads : Return(t)

IoFailSpec == Init /\ [][IoFailNext]_vars

\* ------------------------------------------------------------------ run

\* run, lines 52-61: meta is opened (created empty if missing) and read to
\* its end.
StartRead(e) ==
  /\ start.at = "off"
  /\ Len(started) < MaxStarts
  /\ start' = [at |-> "read", engine |-> e, content |-> meta,
               bound |-> FALSE, code |-> 0]
  /\ started' = Append(started, e)
  /\ UNCHANGED <<meta, conn, engineVars, poolVars>>

\* A plausible slip: the guard compares nothing.
mismatch_never(content, engine) == FALSE

\* run, line 63: !content.is_empty() && content != cli.engine
mismatch(content, engine) == content # "" /\ content # engine

\* file.write_all at the position the read left the file at, its end.
write_all(file, bytes) == file \o bytes

\* run, lines 63-75: on a mismatch the process prints and calls exit(1);
\* otherwise an empty meta gets the engine name written to it.
StartCheck ==
  /\ start.at = "read"
  /\ IF mismatch(start.content, start.engine)
     THEN /\ start' = [start EXCEPT !.at = "exited", !.code = 1]
          /\ UNCHANGED meta
     ELSE /\ start' = [start EXCEPT !.at = "checked"]
          /\ meta' = IF start.content = ""
                     THEN write_all(meta, start.engine) ELSE meta
  /\ UNCHANGED <<started, conn, engineVars, poolVars>>

\* run, line 83: TcpListener::bind(cli.ip)
StartBind ==
  /\ start.at = "checked"
  /\ start' = [start EXCEPT !.at = "bound", !.bound = TRUE]
  /\ UNCHANGED <<meta, started, conn, engineVars, poolVars>>

\* run, line 85: assert_eq!(cli.engine, String::from("kvs")) panics (exit
\* code 101) for any other engine; for kvs the accept loop is entered.
StartAssert ==
  /\ start.at = "bound"
  /\ start' = IF start.engine = "kvs"
              THEN [start EXCEPT !.at = "serving"]
              ELSE [start EXCEPT !.at = "exited", !.code = 101]
  /\ UNCHANGED <<meta, started, conn, engineVars, poolVars>>

\* The process has exited, or the serving process is stopped.
Stop ==
  /\ start.at \in {"exited", "serving"}
  /\ start' = NoStart
  /\ UNCHANGED <<meta, started, conn, engineVars, poolVars>>

\* kvs-server is started, with one engine or the other, again and again in
\* one working directory.
StartNext ==
  \/ \E e \in Engines : StartRead(e)
  \/ StartCheck
  \/ StartBind
  \/ StartAssert
  \/ Stop

StartSpec == Init /\ [][StartNext]_vars

\* ------------------------------------------------------------------ claims

\* The call of thread t was an o and has returned.
Done(t, o) == pc[t] = "done" /\ arg[t].op = o

\* C1: with calls made one at a time, a get(k) returns Some(v) for the value
\* v of the last set(k, v) when no successful remove(k) followed it, and None
\* otherwise, also after rotations, compactions and reopens.
C1_GetReturnsLastWrite ==
  \A t \in Threads :
    Done(t, "get") => AsValue(res[t]) = cur[arg[t].key]

\* C1 witness: after two rotations and a compaction, a get returns a value
\* that it read in the compaction's output.
C1_Witness ==
  \E t \in Threads :
    /\ Done(t, "get") /\ res[t].kind = "Some"
    /\ min_version > 0 /\ local[t].version = min_version

\* C2: with calls in parallel, every get returns a success whose content (a
\* value or absence) its key had at some instant of the call; never an error.
C2_GetLinearisable ==
  \A t \in Threads :
    Done(t, "get") =>
      /\ res[t].kind \in {"Some", "None"}
      /\ AsValue(res[t]) \in seen[t]

\* C2 witness: a get of a key has returned a value while a set of the same
\* key, in flight since before the get, is about to compact.
C2_Witness ==
  \E t, u \in Threads :
    /\ Done(t, "get") /\ res[t].kind = "Some" /\ overlap[t]
    /\ pc[u] = "compact" /\ arg[u].key = arg[t].key

\* C3: a get that starts after every write of its key has returned (none is
\* in flight at its start, none starts before its end) returns the outcome of
\* the last of them, whichever clone made the write.
C3_VisibleToLaterGets ==
  \A t \in Threads :
    (Done(t, "get") /\ ~overlap[t]) => seen[t] = {AsValue(res[t])}

\* C3 witness: the clone t2 reads the value that t1 wrote, and reads it
\* through a handle that t1 has not cached.
C3_Witness ==
  /\ Done("t2", "get") /\ ~overlap["t2"]
  /\ res["t2"] = OkSome(ValueOf("t1"))
  /\ ver_to_file["t2"] # ver_to_file["t1"]

\* C4: a reopen with no call in flight succeeds and changes the result of
\* get(k) for no key k.
C4_ReopenPreservesGets ==
  [][opens' # opens =>
       /\ status' = "open"
       /\ \A k \in Keys :
            GetValue(index', log', k) = GetValue(index, log, k)]_vars

\* C4 witness: a store reopened after a compaction (1.log is gone, and no
\* compaction has run since the reopen), holding one key and having lost the
\* other to a remove.
C4_Witness ==
  /\ opens = 2 /\ status = "open"
  /\ 1 \notin DOMAIN log /\ min_version = 0
  /\ \E k \in Keys : contains_key(index, k) /\ cur[k] # Absent
  /\ \E k \in Keys : ~contains_key(index, k) /\ cur[k] = Absent

\* C5 (as claimed): at every instant, a crash followed by a reopen gives, for
\* each key with no write in flight, the outcome of its last returned write.
C5_ReturnedWritesSurviveCrash ==
  \A k \in Keys :
    (\A u \in Threads : ~Writing(u, k)) => Recovered(log, k) = cur[k]

\* C6: remove(k) returns KeyNotFound exactly when k held nothing at the call
\* and Ok otherwise; either way k is absent from the index when it returns.
C6_RemoveKeyNotFoundIff ==
  \A t \in Threads :
    Done(t, "rm") =>
      /\ (res[t] = Err(KeyNotFound)) <=> (seen[t] = {Absent})
      /\ res[t] \in {Ok, Err(KeyNotFound)}
      /\ ~contains_key(index, arg[t].key)

\* C6 witness: a successful remove that ran a compaction has returned.
C6_Witness ==
  \E t \in Threads :
    Done(t, "rm") /\ res[t] = Ok /\ min_version = current_ver - 1

\* C7: the step in which remove returns KeyNotFound changes neither the
\* files, nor the index, nor the writer's counters and version.
C7_FailedRemoveWritesNothing ==
  [][\A t \in Threads :
       (pc[t] = "idle" /\ pc'[t] = "done" /\ res'[t] = Err(KeyNotFound))
         => UNCHANGED <<log, index, current_len, old_log_len, current_ver>>]_vars

\* C7 witness: remove has returned KeyNotFound on a store that holds a
\* record in its active segment.
C7_Witness ==
  \E t \in Threads :
    /\ Done(t, "rm") /\ res[t] = Err(KeyNotFound)
    /\ current_len > 0

\* C8: get never returns KeyNotFound, and returns Ok(None) for a key that
\* held nothing during the call.
C8_GetAbsentIsNone ==
  \A t \in Threads :
    Done(t, "get") =>
      /\ res[t] # Err(KeyNotFound)
      /\ seen[t] = {Absent} => res[t] = OkNone

\* C8 witness: get returns None for a key whose Rm record is in the log.
C8_Witness ==
  \E t \in Threads :
    /\ Done(t, "get") /\ res[t] = OkNone
    /\ \E v \in DOMAIN log : \E i \in 1..Len(log[v]) :
         log[v][i] = OpRm(arg[t].key)

\* C9: whenever the index is not write-locked, every entry (version, offset)
\* of a key k names a file of the directory in which a Set record of k
\* starts at that offset.
C9_IndexPointsAtSetRecords ==
  write_locked = NoThread =>
    \A k \in Keys :
      contains_key(index, k) =>
        /\ index[k].version \in DOMAIN log
        /\ RecordAt(log[index[k].version], index[k].start_pos).op = "Set"
        /\ RecordAt(log[index[k].version], index[k].start_pos).key = k

\* C9 witness: an entry into a compaction's output, past its first record.
C9_Witness ==
  /\ write_locked = NoThread /\ min_version > 0
  /\ \E k \in Keys :
       index[k].version = min_version /\ index[k].start_pos > 0

\* C10 (as claimed): while the Rm record of a remove(k) in flight is not yet
\* in the log, k is still in the index.
C10_RmLoggedBeforeIndexRemoval ==
  \A t \in Threads :
    pc[t] \in {"rm_index", "rm_append"} => contains_key(index, arg[t].key)

\* C11: when set(k, v) updates the index, its Set record is already the last
\* line of the active segment, and the entry it writes is (the active
\* version, the offset at which that line starts); the active version has
\* not changed since the append.
C11_SetAppendsThenIndexes ==
  [][\A t \in Threads :
       (pc[t] = "set_index" /\ pc'[t] # "set_index") =>
         LET f == log[current_ver]
             e == index'[arg[t].key]
         IN /\ f # <<>>
            /\ f[Len(f)] = OpSet(arg[t].key, ValueOf(t))
            /\ e = InMemIndex(current_ver, StartPos(f, Len(f)))]_vars

\* C11 witness: a set has returned after it rotated the segment, and its
\* entry names the second line of the segment it sealed.
C11_Witness ==
  \E t \in Threads :
    /\ Done(t, "set") /\ res[t] = Ok
    /\ index[arg[t].key] = InMemIndex(current_ver - 1, SerialLen(OpSet("a", "1")))

\* C12: a compaction changes the result of get(k) for no key k: what get
\* returns when compact() starts is what the index order of the writes says
\* (cur), no write is ordered while it runs, and what get returns when it has
\* ended is still that.
C12_CompactionKeepsValues ==
  [][\A t \in Threads :
       /\ (pc[t] = "compact" /\ pc'[t] = "compact_scan") =>
            \A k \in Keys : AsValue(GetValue(index, log, k)) = cur[k]
       /\ pc[t] \in {"compact", "compact_scan"} => cur' = cur
       /\ (pc[t] = "compact_scan" /\ pc'[t] = "done") =>
            \A k \in Keys : AsValue(GetValue(index', log', k)) = cur'[k]]_vars

\* C12 witness: a compaction has just ended; both keys are live with
\* different values and both entries now name the compaction's output.
C12_Witness ==
  /\ \E t \in Threads : pc[t] = "done" /\ arg[t].op \in {"set", "rm"}
  /\ min_version = current_ver - 1
  /\ cur["a"] # Absent /\ cur["b"] # Absent /\ cur["a"] # cur["b"]
  /\ \A k \in Keys : index[k].version = min_version

\* C13 (as claimed): at every point inside a compaction, replaying the files
\* that are on disk succeeds and gives every key the value it had when the
\* compaction started.
C13_CompactionCrashSafe ==
  \A t \in Threads :
    pc[t] = "compact_scan" => \A k \in Keys : Recovered(log, k) = cur[k]

\* A directory on which the replay meets a Rm of a key that is not in the
\* index at that point.
OrphanRm(dir) == ~Replay(dir).ok

\* C14 (as claimed): KvStore::open on a directory whose replay meets a Rm of
\* a key that is not in the index succeeds.
C14_OrphanRmTolerated ==
  [][(opens' # opens /\ OrphanRm(log)) => status' = "open"]_vars

\* C15: the active version is the greatest version in the directory; it never
\* decreases; a file is only ever created at a new active version above every
\* version in the directory; open picks the greatest version found plus 1, a
\* rotation adds 1, and a rotation that compacts adds 1 for the output and 1
\* more for the new active segment.
C15_VersionsIncrease ==
  /\ [](current_ver \in DOMAIN log /\ \A v \in DOMAIN log : v <= current_ver)
  /\ [][/\ current_ver' >= current_ver
        /\ \A v \in DOMAIN log' \ DOMAIN log :
             v = current_ver' /\ \A w \in DOMAIN log : w < v
        /\ opens' # opens => current_ver' = MaxOf(DOMAIN log) + 1
        /\ \A t \in Threads :
             /\ (pc[t] \in {"set_index", "rm_append"} /\ pc'[t] = "done")
                  => current_ver' \in {current_ver, current_ver + 1}
             /\ (pc[t] = "compact" /\ pc'[t] = "compact_scan")
                  => current_ver' = current_ver + 1
             /\ (pc[t] = "compact_scan" /\ pc'[t] = "compact_scan")
                  => current_ver' = current_ver
             /\ (pc[t] = "compact_scan" /\ pc'[t] = "done")
                  => current_ver' = current_ver + 1 /\ min_version' = current_ver
       ]_vars

\* C15 witness: the store was reopened and has then compacted: the
\* directory holds the compaction's output and, one above it, the active
\* segment.
C15_Witness ==
  /\ opens = 2 /\ min_version > 1
  /\ DOMAIN log = {min_version, current_ver}
  /\ current_ver = min_version + 1

Quiescent == \A t \in Threads : pc[t] \in {"idle", "done"}

\* The bytes in the log directory.
TotalBytes == traverse_dir(log).total_len

\* One encoded Set record per live key.
RECURSIVE FootprintOf(_)
FootprintOf(S) ==
  IF S = {} THEN 0
  ELSE LET k == CHOOSE x \in S : TRUE
       IN SerialLen(OpSet(k, cur[k])) + FootprintOf(S \ {k})

LiveFootprint == FootprintOf({k \in Keys : cur[k] # Absent})

\* The bytes of the last compaction's output, 0 when none has run.
CompactedBytes == IF min_version > 0 THEN FileLen(log[min_version]) ELSE 0

C18_OneTaggedResponse ==
  \A t \in Threads :
    (conn[t].state = "responded" /\ conn[t].line.end # "error") =>
      /\ Len(conn[t].out) = 1
      /\ IF request_of(conn[t].line) = Ok
         THEN from_json(ResponseType(conn[t].line.op), conn[t].out[1])
                # DecodeError
         ELSE \E type \in ResponseTypes :
                from_json(type, conn[t].out[1]) # DecodeError

\* C19: the response written for an engine result decodes, as the response
\* type of the request, to the Ok arm for a success (with the value, or with
\* None for an absent key, for get) and to the Err arm with the error's
\* display text for an error; a Rm of a key that held nothing is answered
\* {"Err":"Key not found"}.
C19_ResultMappedToResponse ==
  [][\A t \in Threads :
       (conn[t].state = "read" /\ conn'[t].state = "responded") =>
         LET type == ResponseType(conn[t].line.op)
             sent == from_json(type, conn'[t].out[Len(conn'[t].out)])
         IN /\ sent.type = type
            /\ res[t].kind = "Ok" => sent = ResponseOk(type)
            /\ res[t].kind = "None" =>
                 type = "GetResponse" /\ sent = ResponseOk(type)
            /\ res[t].kind = "Some" =>
                 type = "GetResponse" /\ sent = ResponseOkSome(type, res[t].value)
            /\ res[t] = Err(KeyNotFound) =>
                 sent = ResponseErr(type, "Key not found")
            /\ res[t] = Err(UnexpectedType) =>
                 sent = ResponseErr(type, "unexpected command type")
            /\ res[t].kind = "Err" => sent.arm = "Err"
            /\ (conn[t].line.op = "Rm" /\ seen[t] = {Absent}) =>
                 conn'[t].out = <<JsonVariant("Err", "Key not found")>>]_vars

\* C19 witness: a Rm of a key that another connection had removed has been
\* answered {"Err":"Key not found"}.
C19_Witness ==
  \E t \in Threads :
    /\ conn[t].state = "responded" /\ conn[t].line.op = "Rm"
    /\ conn[t].out = <<JsonVariant("Err", "Key not found")>>
    /\ \E v \in DOMAIN log : \E i \in 1..Len(log[v]) :
         log[v][i] = OpRm(conn[t].line.key)

\* C20 (as claimed): when poll() returns, no slot holds a worker whose thread
\* has ended.
C20_AllLiveAfterPoll ==
  [][(polling # 0 /\ polling' = 0) =>
       \A i \in Slots : worker'[i].at # "finished"]_vars

\* C20 (amended): there are always NWorkers slots and slot i holds a worker
\* with id i; poll() changes one slot at a time, putting a new worker with
\* the same id, at recv on the shared queue, in place of one whose thread has
\* ended; and when poll() returns, every worker that its scan found ended has
\* been replaced by a newer one and every other slot holds the thread it held
\* at the scan.
C20_PollReplacesEnded ==
  /\ [](DOMAIN worker = Slots /\ \A i \in Slots : worker[i].id = i)
  /\ [][/\ (polling >= 1 /\ polling' = polling + 1) =>
             \E i \in Slots :
               /\ worker[i].at = "finished"
               /\ worker'[i].id = i /\ worker'[i].at = "recv"
               /\ worker'[i].gen > worker[i].gen
               /\ \A j \in Slots \ {i} : worker'[j] = worker[j]
        /\ (polling # 0 /\ polling' = 0) =>
             /\ worker' = worker
             /\ \A i \in Slots :
                  IF scanned[i].at = "finished"
                  THEN worker[i].gen > scanned[i].gen
                  ELSE worker[i].gen = scanned[i].gen
       ]_vars

\* C20 witness: poll() has replaced the worker of slot 1, whose task had
\* panicked, is about to return, and the worker of slot 0, which was running
\* a task when poll() examined it, has since ended.
C20_Witness ==
  /\ polling = Len(dead) + 1 /\ dead = <<1>>
  /\ worker[1] = Worker_new(1, 1)
  /\ scanned[0].at = "panics" /\ worker[0] = [scanned[0] EXCEPT !.at = "finished"]

\* C21 (as claimed): when the destruction of the pool has ended, it has ended
\* normally and every worker thread has exited.
C21_DropJoinsEveryWorker ==
  pool \in {"dropped", "panicked"} =>
    /\ pool = "dropped"
    /\ \A i \in Slots : is_end(worker[i])

\* C22: a start that finds another engine's name in meta exits with a
\* non-zero code, has not bound the listener and has left meta as it found
\* it; a start that has passed the guard has the requested engine in meta; and
\* once the first start has passed the guard, meta holds its engine for ever.
C22_EngineMismatchGuard ==
  /\ (start.at \notin {"off", "read"} /\ start.content \notin {"", start.engine})
       => /\ start.at = "exited" /\ start.code # 0
          /\ ~start.bound
          /\ meta = start.content
  /\ start.bound => meta = start.engine
  /\ (started # <<>> /\ ~(Len(started) = 1 /\ start.at = "read"))
       => meta = Head(started)

\* A second start asked for another engine than the first and has exited.
C22_Witness ==
  /\ Len(started) = 2 /\ started[1] # started[2]
  /\ start.at = "exited" /\ start.code = 1

\* The bytes in the active segment when writer t is at its to_flush().
LenAtToFlush(t) ==
  IF pc[t] = "set_index" THEN current_len
  ELSE current_len + SerialLen(OpRm(arg[t].key))

\* C23: whenever no call is inside the writer, the active segment's byte
\* counter is below ACTIVE_THRESHOLD; the step of a set or remove that tests
\* the counter leaves it alone when it is below ACTIVE_THRESHOLD, and otherwise
\* adds it to old_log_len and resets it to 0; and a call that returns after
\* that has opened a new, empty active segment of a larger version.
C23_ActiveBelowThreshold ==
  /\ [](kv_writer = NoThread => current_len < ACTIVE_THRESHOLD)
  /\ [][\A t \in Threads :
        /\ (pc[t] \in {"set_index", "rm_append"} /\ pc'[t] # pc[t]) =>
             IF LenAtToFlush(t) >= ACTIVE_THRESHOLD
             THEN /\ old_log_len' = old_log_len + LenAtToFlush(t)
                  /\ current_len' = 0
                  /\ pc'[t] \in {"done", "compact"}
                  /\ pc'[t] = "done" =>
                       /\ current_ver' > current_ver
                       /\ current_ver' \in DOMAIN log'
                       /\ log'[current_ver'] = <<>>
             ELSE /\ current_len' = LenAtToFlush(t)
                  /\ pc'[t] = "done"
                  /\ UNCHANGED <<old_log_len, current_ver>>
        /\ (pc[t] = "compact_scan" /\ pc'[t] = "done") =>
             /\ current_len' = 0
             /\ current_ver' > current_ver
             /\ current_ver' \in DOMAIN log'
             /\ log'[current_ver'] = <<>>
     ]_vars

\* A remove has filled the first segment, which was sealed without a
\* compaction.
C23_Witness ==
  /\ \E t \in Threads : pc[t] = "done" /\ arg[t].op = "rm" /\ res[t] = Ok
  /\ current_ver = 2 /\ min_version = 0
  /\ current_len = 0
  /\ \E u \in Threads, k \in Keys :
       old_log_len = SerialLen(OpSet(k, ValueOf(u))) + SerialLen(OpRm(k))
  /\ log[2] = <<>>

RecordsOf(f, k) == {i \in DOMAIN f : f[i].key = k}

\* C25: at the step that completes a compaction, the output segment holds
\* only Set records, exactly one for each key that has a value, with that
\* value, and none for any other key; no segment older than the output is
\* left in the directory; and the index maps exactly the keys that have a
\* value, each to the output segment and the byte offset of its record.
C25_CompactionOutput ==
  [][\A t \in Threads :
      (pc[t] = "compact_scan" /\ pc'[t] = "done") =>
        LET v == min_version'
            out == log'[v]
        IN /\ \A i \in DOMAIN out : out[i].op = "Set"
           /\ \A w \in DOMAIN log' : w >= v
           /\ DOMAIN log \cap DOMAIN log' = {v}
           /\ \A k \in Keys :
                IF cur[k] = Absent
                THEN RecordsOf(out, k) = {} /\ index'[k] = NoEntry
                ELSE \E i \in DOMAIN out :
                       /\ RecordsOf(out, k) = {i}
                       /\ out[i] = OpSet(k, cur[k])
                       /\ index'[k] = InMemIndex(v, StartPos(out, i))
   ]_vars

\* A compaction has completed with one key that has a value and one that
\* was removed.
C25_Witness ==
  /\ \E t \in Threads : pc[t] = "done"
  /\ min_version > 0
  /\ DOMAIN log = {min_version, current_ver}
  /\ Len(log[min_version]) = 1 /\ log[current_ver] = <<>>
  /\ \E k \in Keys : cur[k] = Absent /\ index[k] = NoEntry

C27_GetEvictsStale ==
  [][\A t \in Threads :
      (pc'[t] = "done" /\ pc[t] # "done" /\ arg'[t].op = "get") =>
        \A v \in ver_to_file'[t] : v >= min_version'
   ]_vars

\* C28 (as claimed): the step of a get that prunes the cache, opens the
\* segment file and reads the record is taken by a thread that no longer
\* holds the shared lock of the index, so no writer waiting for the exclusive
\* lock is kept waiting by it.
C28_ReadGuardDroppedBeforeIO ==
  [][\A t \in Threads :
      (pc[t] = "get_read" /\ pc'[t] = "done") =>
        /\ t \notin readers
        /\ \A u \in Threads :
             pc[u] \in {"set_index", "rm_index", "compact"} => readers = {}
   ]_vars

AtWriteLock == {t \in Threads : pc[t] \in {"set_index", "rm_index", "compact"}}

C31_FailedWriteChangesNothing ==
  [][\A t \in Threads :
      /\ (pc[t] = "idle" /\ pc'[t] = "done" /\ arg'[t].op = "set"
          /\ res'[t] = Err(IoError)) =>
           /\ index' = index
           /\ current_len' = current_len
      /\ (pc[t] = "rm_append" /\ pc'[t] = "done" /\ res'[t] = Err(IoError)) =>
           /\ current_len' = current_len
           /\ \A k \in Keys :
                AsValue(GetValue(index', log', k)) = Recovered(log', k)
   ]_vars

\* The slots whose thread is running a task.
Running == {i \in Slots : worker[i].at \in Tasks}

\* The slots whose thread has not ended.
LiveWorkers == {i \in Slots : ~is_end(worker[i])}

\* C32: every task sent is either still in the channel or was received
\* once, and every task received is either running in one worker or was run
\* once; a thread that runs a task does not hold the receiver's mutex, which
\* only a thread inside recv() holds; and under fair scheduling of the
\* workers the n-th task sent to a live pool is received and run, unless no
\* live worker is left or the pool is dropped.
C32_TasksRunOnce ==
  /\ [](/\ spawned = Len(queue) + received
        /\ received = ran + Cardinality(Running)
        /\ \A i \in Running : rx_lock # i
        /\ rx_lock # NoSlot => worker[rx_lock].at = "recv")
  /\ \A n \in 1..MaxTasks :
       [](spawned >= n /\ pool = "live" =>
            <>(received >= n \/ LiveWorkers = {} \/ pool # "live"))

\* Every worker is running a task at once, one of them after another
\* worker's task has panicked.
C32_Witness ==
  /\ Running = Slots
  /\ \E i \in Slots : worker[i].gen > 0
  /\ pool = "live"

====
